---- MODULE Spec2Model ----
(***************************************************************************)
(* Model of stock_alerter.py: the indicator engine (EMA, RSI, ATR, Keltner *)
(* channel, MACD), the signal evaluator analyze_stock, the consolidated    *)
(* Discord alert and the main run loop over TICKERS;                       *)
(* and of SPYOptionsAnalyzer.backtest_strategy in                          *)
(* spy_options_day_trading_analysis.py.                                    *)
(*                                                                         *)
(* Numbers are IEEE doubles in the program.  They are modelled as exact    *)
(* rationals extended with NaN, +Infinity and -Infinity, with the IEEE     *)
(* rules for the special values (x/0, inf-inf, comparisons with NaN).      *)
(* Rounding is not modelled.                                               *)
(***************************************************************************)
EXTENDS Integers, Sequences, FiniteSets, TLC

VARIABLES
    pc,                 \* position of the script: "start", "loop", "send", "done", "exited", "crashed"
    webhook,            \* DISCORD_WEBHOOK_URL as read from the environment
    i,                  \* number of TICKERS already processed by the for loop
    data,               \* the DataFrame last handed to analyze_stock (or NoneFrame)
    analysis,           \* what analyze_stock last returned (or None)
    buy_signals_found,  \* the list the loop appends to
    log,                \* one entry per processed ticker: what the iteration did
    posts,              \* number of requests.post calls issued so far
    post_result,        \* outcome of the last POST: "none", "ok", "http_error", "raised"
    payload,            \* embeds of the last payload handed to requests.post
    exit_code,          \* process exit status: -1 while running, 0 normal end, 1 on exit(1) or a traceback
    out,                \* the series an indicator function returned, when one is applied alone
    window_arg,         \* the window that indicator function was given (0 when none is applied)
    backtest            \* SPYOptionsAnalyzer.backtest_strategy: its rows, position and trades

vars == <<pc, webhook, i, data, analysis, buy_signals_found, log, posts,
          post_result, payload, exit_code, out, window_arg, backtest>>

----------------------------------------------------------------------------
(* Program constants                                                        *)

EMA_35_LEN == 35
EMA_50_LEN == 50
EMA_200_LEN == 200
RSI_LEN == 14
RSI_BUYING_THRESHOLD == 30
KC_LEN == 20
KC_MULTIPLIER == 2
KC_ATR_LEN == 10
MACD_FAST_LEN == 12
MACD_SLOW_LEN == 26
MACD_SIGNAL_LEN == 9
MAX_FIELDS_PER_EMBED == 20

----------------------------------------------------------------------------
(* Floating point values: exact rationals n/d (d > 0, lowest terms), NaN,   *)
(* and the two infinities (n = 1 or -1).                                    *)

NaN == [k |-> "nan", n |-> 0, d |-> 1]
PosInf == [k |-> "inf", n |-> 1, d |-> 1]
NegInf == [k |-> "inf", n |-> -1, d |-> 1]

Abs(a) == IF a < 0 THEN -a ELSE a

Sign(a) == IF a < 0 THEN -1 ELSE IF a > 0 THEN 1 ELSE 0

RECURSIVE GCD(_, _)
GCD(a, b) == IF b = 0 THEN a ELSE GCD(b, a % b)

\* n/d with g = gcd(|n|, |d|), in lowest terms with a positive denominator
Norm(n, d, g) ==
    [k |-> "fin", n |-> (IF d < 0 THEN -n ELSE n) \div g, d |-> Abs(d) \div g]

Rat(n, d) == Norm(n, d, GCD(Abs(n), Abs(d)))

Num(a) == [k |-> "fin", n |-> a, d |-> 1]

IsNaN(x) == x.k = "nan"
IsFin(x) == x.k = "fin"
IsInf(x) == x.k = "inf"

FNeg(x) == [x EXCEPT !.n = -x.n]

FAbs(x) == [x EXCEPT !.n = Abs(x.n)]

AddFin(x, y, g) ==
    Rat(x.n * (y.d \div g) + y.n * (x.d \div g), (x.d \div g) * y.d)

FAdd(x, y) ==
    IF IsNaN(x) \/ IsNaN(y) THEN NaN
    ELSE IF IsInf(x) /\ IsInf(y) THEN (IF x.n = y.n THEN x ELSE NaN)
    ELSE IF IsInf(x) THEN x
    ELSE IF IsInf(y) THEN y
    ELSE AddFin(x, y, GCD(x.d, y.d))

FSub(x, y) == FAdd(x, FNeg(y))

MulFin(x, y, g1, g2) ==
    Rat((x.n \div g1) * (y.n \div g2), (x.d \div g2) * (y.d \div g1))

FMul(x, y) ==
    IF IsNaN(x) \/ IsNaN(y) THEN NaN
    ELSE IF IsInf(x) \/ IsInf(y)
         THEN (IF x.n = 0 \/ y.n = 0 THEN NaN
               ELSE IF (x.n > 0) = (y.n > 0) THEN PosInf ELSE NegInf)
    ELSE MulFin(x, y, GCD(Abs(x.n), y.d), GCD(Abs(y.n), x.d))

FDiv(x, y) ==
    IF IsNaN(x) \/ IsNaN(y) THEN NaN
    ELSE IF IsInf(x) /\ IsInf(y) THEN NaN
    ELSE IF IsInf(x) THEN (IF (x.n > 0) = (y.n >= 0) THEN PosInf ELSE NegInf)
    ELSE IF IsInf(y) THEN Num(0)
    ELSE IF y.n = 0
         THEN (IF x.n = 0 THEN NaN ELSE IF x.n > 0 THEN PosInf ELSE NegInf)
    ELSE FMul(x, Rat(y.d, y.n))

CmpFin(x, y, g) == Sign(x.n * (y.d \div g) - y.n * (x.d \div g))

\* -1, 0, 1 for x < y, x = y, x > y; only for values that are not NaN
Cmp(x, y) ==
    IF IsInf(x) /\ IsInf(y) THEN Sign(x.n - y.n)
    ELSE IF IsInf(x) THEN x.n
    ELSE IF IsInf(y) THEN -y.n
    ELSE CmpFin(x, y, GCD(x.d, y.d))

\* Comparisons with NaN are false
FLt(x, y) == ~IsNaN(x) /\ ~IsNaN(y) /\ Cmp(x, y) < 0
FGt(x, y) == ~IsNaN(x) /\ ~IsNaN(y) /\ Cmp(x, y) > 0
FLe(x, y) == ~IsNaN(x) /\ ~IsNaN(y) /\ Cmp(x, y) <= 0

----------------------------------------------------------------------------
(* Indicator engine.  A series is a sequence of values, index 1 the oldest. *)

\* series.iloc[-1] and series.iloc[-2]
Last(s) == s[Cardinality(DOMAIN s)]

Prev(s) == s[Cardinality(DOMAIN s) - 1]

\* pandas Series.ewm(span=window, adjust=False).mean(), as its kernel runs:
\* the first sample seeds the average; a NaN sample leaves the average as it
\* is and only ages the old weight; an average equal to the sample is kept
\* as it is; a NaN average is re-seeded by the next sample.
EwmMix(weighted, cur, old_wt, alpha) ==
    FDiv(FAdd(FMul(old_wt, weighted), FMul(alpha, cur)), FAdd(old_wt, alpha))

EwmWeighted(acc, cur, alpha, old_wt) ==
    IF IsNaN(acc.weighted) THEN cur
    ELSE IF IsNaN(cur) THEN acc.weighted
    ELSE IF acc.weighted = cur THEN acc.weighted
    ELSE EwmMix(acc.weighted, cur, old_wt, alpha)

EwmAcc(acc, cur, old_wt, weighted) ==
    [weighted |-> weighted,
     old_wt |-> IF IsNaN(acc.weighted) THEN acc.old_wt
                ELSE IF IsNaN(cur) THEN old_wt
                ELSE Num(1),
     out |-> Append(acc.out, weighted)]

EwmAged(acc, cur, alpha, old_wt) ==
    EwmAcc(acc, cur, old_wt, EwmWeighted(acc, cur, alpha, old_wt))

EwmStep(acc, cur, alpha) ==
    EwmAged(acc, cur, alpha, FMul(acc.old_wt, FSub(Num(1), alpha)))

\* The kernel's loop over samples lo..hi, in order (the range is halved only
\* to keep the evaluation shallow; the steps run left to right).
RECURSIVE EwmRange(_, _, _, _, _)
EwmRange(vals, alpha, acc, lo, hi) ==
    IF Len(acc.out) = 0 \/ lo > hi THEN acc
    ELSE IF lo = hi THEN EwmStep(acc, vals[lo], alpha)
    ELSE EwmRange(vals, alpha,
                  EwmRange(vals, alpha, acc, lo, (lo + hi) \div 2),
                  (lo + hi) \div 2 + 1, hi)

\* Mutant: Wilder's smoothing factor 1/window in place of 2/(window + 1)
calculate_ema_wilder(series, window) ==
    IF Len(series) = 0 THEN <<>>
    ELSE EwmRange(series, Rat(1, window),
                  [weighted |-> series[1], old_wt |-> Num(1), out |-> <<series[1]>>],
                  2, Len(series)).out

calculate_ema(series, window) ==
    IF Len(series) = 0 THEN <<>>
    ELSE EwmRange(series, Rat(2, window + 1),
                  [weighted |-> series[1], old_wt |-> Num(1), out |-> <<series[1]>>],
                  2, Len(series)).out

\* data.diff() at position t: the first entry has no predecessor
Delta(series, t) == IF t = 1 THEN NaN ELSE FSub(series[t], series[t - 1])

PositivePart(d) == IF FGt(d, Num(0)) THEN d ELSE Num(0)

NegativePart(d) == IF FLt(d, Num(0)) THEN d ELSE Num(0)

\* delta.where(delta > 0, 0) at position t (a NaN delta counts as 0)
GainAt(series, t) == PositivePart(Delta(series, t))

\* -delta.where(delta < 0, 0) at position t
LossAt(series, t) == FNeg(NegativePart(Delta(series, t)))

RECURSIVE SumGain(_, _, _)
SumGain(series, from, to) ==
    IF from > to THEN Num(0)
    ELSE FAdd(SumGain(series, from, to - 1), GainAt(series, to))

RECURSIVE SumLoss(_, _, _)
SumLoss(series, from, to) ==
    IF from > to THEN Num(0)
    ELSE FAdd(SumLoss(series, from, to - 1), LossAt(series, to))

\* .rolling(window=window).mean() at position t: undefined until the window is full
AvgGain(series, window, t) ==
    IF t < window THEN NaN
    ELSE FDiv(SumGain(series, t - window + 1, t), Num(window))

AvgLoss(series, window, t) ==
    IF t < window THEN NaN
    ELSE FDiv(SumLoss(series, t - window + 1, t), Num(window))

\* Mutant: the ratio upside down, rs = loss / gain
RsiOfInverted(gain, loss) ==
    FSub(Num(100), FDiv(Num(100), FAdd(Num(1), FDiv(loss, gain))))

\* rs = gain / loss; rsi = 100 - (100 / (1 + rs)), with no special case
RsiOf(gain, loss) ==
    FSub(Num(100), FDiv(Num(100), FAdd(Num(1), FDiv(gain, loss))))

calculate_rsi(series, window) ==
    [t \in 1..Len(series) |->
        RsiOf(AvgGain(series, window, t), AvgLoss(series, window, t))]

\* close.shift(1) at position t
Shift1(series, t) == IF t = 1 THEN NaN ELSE series[t - 1]

\* DataFrame.max(axis=1): NaN entries are skipped, all NaN gives NaN
FMax2(x, y) ==
    IF IsNaN(x) THEN y ELSE IF IsNaN(y) THEN x ELSE IF FGt(y, x) THEN y ELSE x

TrueRangeAt(h, l, prev_close) ==
    FMax2(FMax2(FSub(h, l), FAbs(FSub(h, prev_close))), FAbs(FSub(l, prev_close)))

TrueRange(high, low, close) ==
    [t \in 1..Len(close) |-> TrueRangeAt(high[t], low[t], Shift1(close, t))]

calculate_atr(high, low, close, window) ==
    calculate_ema(TrueRange(high, low, close), window)

SeriesSub(a, b) == [t \in 1..Len(a) |-> FSub(a[t], b[t])]

MacdResult(macd_line, signal_line) ==
    [macd_line |-> macd_line,
     signal_line |-> signal_line,
     histogram |-> SeriesSub(macd_line, signal_line)]

MacdOf(macd_line, signal_len) ==
    MacdResult(macd_line, calculate_ema(macd_line, signal_len))

calculate_macd(series, fast_len, slow_len, signal_len) ==
    MacdOf(SeriesSub(calculate_ema(series, fast_len), calculate_ema(series, slow_len)),
           signal_len)

----------------------------------------------------------------------------
(* DataFrames.  A frame of kind "bars" holds its Close, High and Low        *)
(* columns in full.  A frame of kind "summary" stands for a history that is *)
(* not written out: it holds its number of bars and the latest values the   *)
(* indicator engine yields on it.  A frame of kind "closes" holds its Close *)
(* column in full, from which the latest close and the RSI are computed;    *)
(* the latest values of its EMAs, Keltner band and MACD are held as in a    *)
(* summary.  NoneFrame is Python's None.                                    *)

NoSnapshot == [close |-> NaN, ema35 |-> NaN, ema50 |-> NaN, ema200 |-> NaN,
               rsi |-> NaN, kc_lower |-> NaN, macd_line |-> NaN,
               signal_line |-> NaN, macd_hist |-> NaN,
               macd_prev |-> NaN, signal_prev |-> NaN]

\* No backtest under way
NoBacktest == [row |-> 0, backtest_data |-> <<>>, twin_data |-> <<>>,
               trades |-> <<>>, twin_trades |-> <<>>, winrates |-> <<>>]

NoneFrame == [kind |-> "none", len |-> 0, Close |-> <<>>, High |-> <<>>,
              Low |-> <<>>, snap |-> NoSnapshot]

BarsFrame(close, high, low) ==
    [kind |-> "bars", len |-> Len(close), Close |-> close, High |-> high,
     Low |-> low, snap |-> NoSnapshot]

SummaryFrame(n, snapshot) ==
    [kind |-> "summary", len |-> n, Close |-> <<>>, High |-> <<>>,
     Low |-> <<>>, snap |-> snapshot]

ClosesFrame(close, snapshot) ==
    [kind |-> "closes", len |-> Len(close), Close |-> close, High |-> <<>>,
     Low |-> <<>>, snap |-> snapshot]

\* df.empty
IsEmpty(df) == df.len = 0

Max(S) == CHOOSE m \in S : \A x \in S : x <= m

\* Mutant: the longest window, EMA_200_LEN, left out of the maximum
required_data_points_without_ema200 ==
    Max({RSI_LEN, KC_LEN, KC_ATR_LEN, MACD_SLOW_LEN + MACD_SIGNAL_LEN})

required_data_points ==
    Max({EMA_200_LEN, RSI_LEN, KC_LEN, KC_ATR_LEN, MACD_SLOW_LEN + MACD_SIGNAL_LEN})

\* The latest values analyze_stock reads (and the MACD pair one bar earlier)
Snapshot(close, ema35, ema50, ema200, rsi, kc_lower, macd, signal, hist, macd_p, signal_p) ==
    [close |-> close, ema35 |-> ema35, ema50 |-> ema50, ema200 |-> ema200,
     rsi |-> rsi, kc_lower |-> kc_lower, macd_line |-> macd,
     signal_line |-> signal, macd_hist |-> hist,
     macd_prev |-> macd_p, signal_prev |-> signal_p]

\* kc_lower = kc_basis - kc_atr * KC_MULTIPLIER, latest value
KcLower(close_prices, high_prices, low_prices) ==
    FSub(Last(calculate_ema(close_prices, KC_LEN)),
         FMul(Last(calculate_atr(high_prices, low_prices, close_prices, KC_ATR_LEN)),
              Num(KC_MULTIPLIER)))

BarsIndicators(close_prices, high_prices, low_prices, macd) ==
    Snapshot(Last(close_prices),
             Last(calculate_ema(close_prices, EMA_35_LEN)),
             Last(calculate_ema(close_prices, EMA_50_LEN)),
             Last(calculate_ema(close_prices, EMA_200_LEN)),
             Last(calculate_rsi(close_prices, RSI_LEN)),
             KcLower(close_prices, high_prices, low_prices),
             Last(macd.macd_line), Last(macd.signal_line), Last(macd.histogram),
             Prev(macd.macd_line), Prev(macd.signal_line))

\* The indicator series of a frame and the values analyze_stock reads from them
Indicators(df) ==
    IF df.kind = "summary" THEN df.snap
    ELSE IF df.kind = "closes"
    THEN [df.snap EXCEPT !.close = Last(df.Close),
                         !.rsi = Last(calculate_rsi(df.Close, RSI_LEN))]
    ELSE BarsIndicators(df.Close, df.High, df.Low,
                        calculate_macd(df.Close, MACD_FAST_LEN, MACD_SLOW_LEN,
                                       MACD_SIGNAL_LEN))

\* any(pd.isna([...])): the eight values the check lists
any_isna(s) ==
    \E x \in {s.ema35, s.ema50, s.ema200, s.rsi, s.kc_lower, s.macd_line,
              s.signal_line, s.macd_hist} : IsNaN(x)

price_over_ema35(s) == FGt(s.close, s.ema35)
price_over_ema50(s) == FGt(s.close, s.ema50)
price_over_ema200(s) == FGt(s.close, s.ema200)
rsi_in_buy_range(s) == FLt(s.rsi, Num(RSI_BUYING_THRESHOLD))
kc_in_buy_range(s) == FLt(s.close, s.kc_lower)

\* Mutant: MACD above its signal line counts, whatever the bar before
macd_above_signal(s, n) ==
    IF n > 1 THEN FGt(s.macd_line, s.signal_line) ELSE FALSE

\* n is len(macd_line) = len(signal_line)
macd_bullish_crossover(s, n) ==
    IF n > 1
    THEN FGt(s.macd_line, s.signal_line) /\ FLe(s.macd_prev, s.signal_prev)
    ELSE FALSE

\* Mutant: the MACD condition left out of the aggregate
overall_buy_without_macd(over35, over50, over200, rsi_buy, kc_buy, macd_cross) ==
    over35 /\ over50 /\ over200 /\ rsi_buy /\ kc_buy

overall_buy(over35, over50, over200, rsi_buy, kc_buy, macd_cross) ==
    over35 /\ over50 /\ over200 /\ rsi_buy /\ kc_buy /\ macd_cross

None == [none |-> TRUE]

Results(s, ticker_symbol, over35, over50, over200, rsi_buy, kc_buy, macd_cross) ==
    [ticker |-> ticker_symbol,
     price |-> s.close,
     ema35 |-> s.ema35,
     ema50 |-> s.ema50,
     ema200 |-> s.ema200,
     rsi |-> s.rsi,
     kc_lower |-> s.kc_lower,
     macd_line |-> s.macd_line,
     signal_line |-> s.signal_line,
     macd_hist |-> s.macd_hist,
     price_over_ema35 |-> over35,
     price_over_ema50 |-> over50,
     price_over_ema200 |-> over200,
     rsi_in_buy_range |-> rsi_buy,
     kc_in_buy_range |-> kc_buy,
     macd_bullish_crossover |-> macd_cross,
     overall_buy |-> overall_buy(over35, over50, over200, rsi_buy, kc_buy, macd_cross)]

\* analyze_stock from the NaN check on, given the latest values s of n bars
Evaluate(s, n, ticker_symbol) ==
    IF any_isna(s) THEN None
    ELSE Results(s, ticker_symbol, price_over_ema35(s), price_over_ema50(s),
                 price_over_ema200(s), rsi_in_buy_range(s), kc_in_buy_range(s),
                 macd_bullish_crossover(s, n))

analyze_stock(df, ticker_symbol) ==
    IF df.kind = "none" \/ IsEmpty(df) THEN None
    ELSE IF df.len < required_data_points THEN None
    ELSE Evaluate(Indicators(df), df.len, ticker_symbol)

----------------------------------------------------------------------------
(* The consolidated alert                                                   *)

UNSET == "None"

WebhookValues == {UNSET, "", "https://discord.example/api/webhooks/1"}

\* Mutant: only None is rejected (`is None` in place of `not`)
IsUnset(url) == url = UNSET

\* Python truthiness of the webhook URL: None and "" are falsy
Falsy(url) == url = UNSET \/ url = ""

\* The line of text built for one signal (the fields it shows)
Details(signal) ==
    [ticker |-> signal.ticker, price |-> signal.price, ema35 |-> signal.ema35,
     ema50 |-> signal.ema50, ema200 |-> signal.ema200, rsi |-> signal.rsi,
     kc_lower |-> signal.kc_lower, macd_hist |-> signal.macd_hist]

\* One embed; its description is the joined lines, kept as the list of lines
Embed(current_description) ==
    [title |-> "Consolidated BUY Signals", description |-> current_description,
     color |-> 65280]

\* Mutant: the embed is closed one line too late (> in place of >=)
EmbedOverfull(n) == n > MAX_FIELDS_PER_EMBED

EmbedFull(n) == n >= MAX_FIELDS_PER_EMBED

\* The for loop over buy_signals and the flush of the remaining lines
RECURSIVE EmbedLoop(_, _, _, _)
EmbedLoop(buy_signals, k, embeds, current_description) ==
    IF k > Len(buy_signals)
    THEN (IF current_description # <<>>
          THEN Append(embeds, Embed(current_description))
          ELSE embeds)
    ELSE IF EmbedFull(Len(current_description) + 1)
         THEN EmbedLoop(buy_signals, k + 1,
                        Append(embeds,
                               Embed(Append(current_description, Details(buy_signals[k])))),
                        <<>>)
         ELSE EmbedLoop(buy_signals, k + 1, embeds,
                        Append(current_description, Details(buy_signals[k])))

BuildEmbeds(buy_signals) == EmbedLoop(buy_signals, 1, <<>>, <<>>)

PostOutcomes == {"ok", "http_error", "raised"}

\* Mutant: no except clause around the POST
AlertRaisesOnFailure(outcome) == outcome # "ok"

\* Whether send_discord_consolidated_alert lets the failure of the POST out:
\* requests.exceptions.RequestException is caught and logged
AlertRaises(outcome) == FALSE

\* Whether send_discord_consolidated_alert gets as far as requests.post
AlertPosts(webhook_url, buy_signals) == ~Falsy(webhook_url) /\ buy_signals # <<>>

\* send_discord_consolidated_alert(webhook_url, buy_signals), its POST ending
\* as `outcome`: what it sends
send_discord_consolidated_alert(webhook_url, buy_signals, outcome) ==
    IF AlertPosts(webhook_url, buy_signals)
    THEN /\ posts' = posts + 1
         /\ payload' = BuildEmbeds(buy_signals)
         /\ post_result' = outcome
    ELSE UNCHANGED <<posts, post_result, payload>>

\* Whether the call returns to its caller (rather than raising)
AlertReturns(webhook_url, buy_signals, outcome) ==
    AlertPosts(webhook_url, buy_signals) => ~AlertRaises(outcome)

----------------------------------------------------------------------------
(* The run: __main__                                                        *)

NumTickers == 3

AllTickers ==
    <<"NVDA", "TSLA", "SPY", "QQQ", "AAPL", "AMZN", "AMD", "MSFT", "META", "RDDT",
      "CRWV", "GOOGL", "AVGO", "BRK.B", "TSM", "LLY", "WMT", "JPM", "V", "ORCL",
      "NFLX", "MA", "XOM", "COST", "JNJ", "PG", "KO", "PLTR", "UNH", "BABA">>

\* The monitored symbols: the first NumTickers of the program's list
TICKERS == SubSeq(AllTickers, 1, NumTickers)

\* Histories: n bars, all but the last Len(tail) of them flat at `base`
\* (high = low = close = base), then the bars of `tail`, each <<close, high, low>>
Hist(n, base, tail) ==
    LET m == n - Len(tail)
    IN BarsFrame([t \in 1..m |-> base] \o [t \in 1..Len(tail) |-> tail[t][1]],
                 [t \in 1..m |-> base] \o [t \in 1..Len(tail) |-> tail[t][2]],
                 [t \in 1..m |-> base] \o [t \in 1..Len(tail) |-> tail[t][3]])

\* Latest values of a history that is not written out; the histogram is
\* macd_line - signal_line as in calculate_macd
Summary(close, ema35, ema50, ema200, rsi, kc_lower, macd, signal, macd_p, signal_p) ==
    Snapshot(close, ema35, ema50, ema200, rsi, kc_lower, macd, signal,
             FSub(macd, signal), macd_p, signal_p)

EmptyFrame == BarsFrame(<<>>, <<>>, <<>>)

ShortFrame == Hist(EMA_200_LEN - 1, Num(100), <<>>)

\* what the engine yields on a flat history: no gain, no loss, RSI is 0/0
FlatSummary ==
    SummaryFrame(EMA_200_LEN,
                 Summary(Num(100), Num(100), Num(100), Num(100), NaN, Num(100),
                          Num(0), Num(0), Num(0), Num(0)))

HoldSummary ==
    SummaryFrame(EMA_200_LEN,
                 Summary(Num(110), Num(100), Num(100), Num(100), Num(60), Num(90),
                          Num(1), Num(0), Num(1), Num(0)))

BuySummary ==
    SummaryFrame(EMA_200_LEN,
                 Summary(Num(110), Num(100), Num(100), Num(100), Num(20), Num(120),
                          Num(1), Num(0), Num(-1), Num(0)))

RunFrames == {EmptyFrame, ShortFrame, FlatSummary, HoldSummary, BuySummary}

\* What the Yahoo Finance calls of get_stock_data do: raise, or return a frame
FetchOutcomes ==
    {[raises |-> TRUE, frame |-> NoneFrame]}
        \cup {[raises |-> FALSE, frame |-> f] : f \in RunFrames}

\* Mutant: no try/except in get_stock_data
get_stock_data_uncaught(outcome) ==
    IF outcome.raises
    THEN [raised |-> TRUE, frame |-> NoneFrame, logged |-> "nothing"]
    ELSE IF IsEmpty(outcome.frame)
    THEN [raised |-> FALSE, frame |-> NoneFrame, logged |-> "no data found"]
    ELSE [raised |-> FALSE, frame |-> outcome.frame, logged |-> "nothing"]

\* get_stock_data(ticker): every Exception is caught and None returned, and so
\* is an empty frame; `raised` tells whether an exception leaves the function,
\* `logged` what it logs
get_stock_data(outcome) ==
    IF outcome.raises
    THEN [raised |-> FALSE, frame |-> NoneFrame, logged |-> "error fetching"]
    ELSE IF IsEmpty(outcome.frame)
    THEN [raised |-> FALSE, frame |-> NoneFrame, logged |-> "no data found"]
    ELSE [raised |-> FALSE, frame |-> outcome.frame, logged |-> "nothing"]

\* Mutant: overall_buy not looked at, any result is taken as a buy
BranchBuyOnAnyResult(a) ==
    IF a # None THEN "buy" ELSE "incomplete"

\* Mutant: `else` in place of `elif analysis`
BranchHoldByDefault(a) ==
    IF a # None /\ a.overall_buy THEN "buy" ELSE "hold"

\* The if / elif / else of the loop body on the result of analyze_stock
Branch(a) ==
    IF a # None /\ a.overall_buy THEN "buy"
    ELSE IF a # None THEN "hold"
    ELSE "incomplete"

Init ==
    /\ pc = "start"
    /\ webhook \in WebhookValues
    /\ i = 0
    /\ data = NoneFrame
    /\ analysis = None
    /\ buy_signals_found = <<>>
    /\ log = <<>>
    /\ posts = 0
    /\ post_result = "none"
    /\ payload = <<>>
    /\ exit_code = -1
    /\ out = <<>>
    /\ window_arg = 0
    /\ backtest = NoBacktest

\* if not DISCORD_WEBHOOK_URL: exit(1); otherwise the loop starts
Start ==
    /\ pc = "start"
    /\ IF Falsy(webhook)
       THEN pc' = "exited" /\ exit_code' = 1
       ELSE pc' = "loop" /\ exit_code' = exit_code
    /\ UNCHANGED <<webhook, i, data, analysis, buy_signals_found, log, posts,
                   post_result, payload, out, window_arg, backtest>>

\* if data is not None and not data.empty
HasData(frame) == frame # NoneFrame /\ ~IsEmpty(frame)

\* What one iteration does with the fetched frame: the log entry
LoopEntry(ticker, fetch_log, analyzed, a) ==
    [ticker |-> ticker, fetch |-> fetch_log, analyzed |-> analyzed, analysis |-> a,
     branch |-> IF analyzed THEN Branch(a) ELSE "nodata"]

LoopBody(ticker, got) ==
    LoopEntry(ticker, got.logged, HasData(got.frame),
              IF HasData(got.frame) THEN analyze_stock(got.frame, ticker) ELSE None)

LoopStep(got, entry) ==
    IF got.raised
    THEN /\ pc' = "crashed"
         /\ exit_code' = 1
         /\ UNCHANGED <<i, data, analysis, buy_signals_found, log>>
    ELSE /\ data' = got.frame
         /\ analysis' = entry.analysis
         /\ buy_signals_found' =
                IF entry.branch = "buy" THEN Append(buy_signals_found, entry.analysis)
                ELSE buy_signals_found
         /\ log' = Append(log, entry)
         /\ i' = i + 1
         /\ pc' = IF i + 1 = Len(TICKERS) THEN "send" ELSE "loop"
         /\ exit_code' = exit_code

FetchAndProcess(ticker, got) == LoopStep(got, LoopBody(ticker, got))

\* One iteration of the for loop over TICKERS
LoopIteration ==
    /\ pc = "loop"
    /\ i < Len(TICKERS)
    /\ \E outcome \in FetchOutcomes :
         FetchAndProcess(TICKERS[i + 1], get_stock_data(outcome))
    /\ UNCHANGED <<webhook, posts, post_result, payload, out, window_arg, backtest>>

\* After the loop: the alert is sent when buy_signals_found is not empty,
\* and the script ends
SendAlert ==
    /\ pc = "send"
    /\ IF buy_signals_found # <<>>
       THEN \E outcome \in PostOutcomes :
              /\ send_discord_consolidated_alert(webhook, buy_signals_found, outcome)
              /\ IF AlertReturns(webhook, buy_signals_found, outcome)
                 THEN pc' = "done" /\ exit_code' = 0
                 ELSE pc' = "crashed" /\ exit_code' = 1
       ELSE /\ pc' = "done"
            /\ exit_code' = 0
            /\ UNCHANGED <<posts, post_result, payload>>
    /\ UNCHANGED <<webhook, i, data, analysis, buy_signals_found, log, out, window_arg, backtest>>

Next == Start \/ LoopIteration \/ SendAlert

Spec == Init /\ [][Next]_vars

\* The interpreter runs the script to its end: no step waits forever
FairSpec == Spec /\ WF_vars(Next)


----------------------------------------------------------------------------
(* analyze_stock applied to one frame                                       *)

\* Bars <<close, high, low>> the last two days of a history are drawn from
TailBars ==
    {<<Num(50), Num(50), Num(50)>>, <<Num(100), Num(100), Num(100)>>,
     <<Num(150), Num(150), Num(150)>>, <<Num(100), Num(110), Num(90)>>,
     <<NaN, Num(100), Num(100)>>, <<NaN, NaN, NaN>>,
     <<Num(100), PosInf, Num(100)>>, <<PosInf, PosInf, PosInf>>}

HistLens == {MACD_SLOW_LEN + MACD_SIGNAL_LEN, EMA_200_LEN - 1, EMA_200_LEN}

BarFrames ==
    {Hist(n, Num(100), <<b1, b2>>) : n \in HistLens, b1 \in TailBars, b2 \in TailBars}

\* Summaries in which each of the six conditions holds or fails on its own
FlagFrames ==
    {SummaryFrame(EMA_200_LEN,
                  Summary(Num(110), e35, e50, e200, r, kc, m, Num(0), mp, Num(0))) :
        e35 \in {Num(100), Num(110)}, e50 \in {Num(100), Num(110)},
        e200 \in {Num(100), Num(110)}, r \in {Num(29), Num(30)},
        kc \in {Num(110), Num(120)}, m \in {Num(0), Num(1)}, mp \in {Num(0), Num(1)}}

\* Close fixed at 100 for EMA_200_LEN - 1 bars, then 50 on the last bar; the
\* last bar's high is either its close or the close of the day before
DropFrames ==
    {Hist(EMA_200_LEN, Num(100), <<<<Num(50), h, Num(50)>>>>) : h \in {Num(50), Num(100)}}

\* Length of the rising close series
RisingBars == 250

\* Strictly rising closes: steps of 1, of 5, of 1/100, growing steps, and
\* steps alternating between 3 and 1
RisingClose(shape, t) ==
    CASE shape = 1 -> Num(100 + t)
      [] shape = 2 -> Num(100 + 5 * t)
      [] shape = 3 -> Rat(10000 + t, 100)
      [] shape = 4 -> Num(100 + t * t)
      [] shape = 5 -> Num(100 + 2 * t + (t % 2))

RisingShapes == 1..5

\* Latest EMA, Keltner and MACD values of a rising history: the EMAs lie
\* below the close; the band and the MACD pair are left open either way
RisingSnapshots ==
    {Summary(NaN, Num(50), Num(50), Num(50), NaN, kc, Num(1), Num(0), mp, Num(0)) :
        kc \in {Num(0), Num(1000000)}, mp \in {Num(-1), Num(1)}}

\* The rising series evaluated at each bar from EMA_200_LEN - 1 on
RisingFrames ==
    {ClosesFrame([t \in 1..n |-> RisingClose(shape, t)], snapshot) :
        n \in (EMA_200_LEN - 1)..RisingBars, shape \in RisingShapes,
        snapshot \in RisingSnapshots}

AnalyzeFrames == BarFrames \cup FlagFrames \cup DropFrames \cup RisingFrames

InitAnalyze ==
    /\ pc = "analyze"
    /\ webhook = UNSET
    /\ i = 0
    /\ data \in AnalyzeFrames
    /\ analysis = None
    /\ buy_signals_found = <<>>
    /\ log = <<>>
    /\ posts = 0
    /\ post_result = "none"
    /\ payload = <<>>
    /\ exit_code = -1
    /\ out = <<>>
    /\ window_arg = 0
    /\ backtest = NoBacktest

AnalyzeStep ==
    /\ pc = "analyze"
    /\ analysis' = analyze_stock(data, AllTickers[1])
    /\ pc' = "analyzed"
    /\ UNCHANGED <<webhook, i, data, buy_signals_found, log, posts, post_result,
                   payload, exit_code, out, window_arg, backtest>>

SpecAnalyze == InitAnalyze /\ [][AnalyzeStep]_vars

----------------------------------------------------------------------------
(* The indicator functions applied to one close series                      *)

ClosePrices == {Num(50), Num(100), Num(120), Num(150), NaN}

CloseTails ==
    {<<>>} \cup {<<c>> : c \in ClosePrices}
           \cup {<<c1, c2>> : c1 \in ClosePrices, c2 \in ClosePrices}

CloseBars(tail) == [t \in 1..Len(tail) |-> <<tail[t], tail[t], tail[t]>>]

EngineFrames ==
    {Hist(n, Num(100), CloseBars(tail)) :
        n \in {RSI_LEN, RSI_LEN + 1, RSI_LEN + 2}, tail \in CloseTails}

\* Short series, every sample of which varies
MaxShort == 3

ShortTails ==
    UNION {[1..n -> ClosePrices] : n \in 1..MaxShort}

ShortSeriesFrames ==
    {Hist(Len(tail), Num(100), CloseBars(tail)) : tail \in ShortTails}

\* Windows the indicator functions are called with
EngineWindows == {1, 2, 3, MACD_SIGNAL_LEN, RSI_LEN}

InitEngine ==
    /\ pc = "engine"
    /\ webhook = UNSET
    /\ i = 0
    /\ data \in EngineFrames \cup ShortSeriesFrames
    /\ analysis = None
    /\ buy_signals_found = <<>>
    /\ log = <<>>
    /\ posts = 0
    /\ post_result = "none"
    /\ payload = <<>>
    /\ exit_code = -1
    /\ out = <<>>
    /\ window_arg \in EngineWindows
    /\ backtest = NoBacktest

RunRsi ==
    /\ pc = "engine"
    /\ window_arg = RSI_LEN
    /\ out' = calculate_rsi(data.Close, window_arg)
    /\ pc' = "rsi"
    /\ UNCHANGED <<webhook, i, data, analysis, buy_signals_found, log, posts,
                   post_result, payload, exit_code, window_arg, backtest>>

RunEma ==
    /\ pc = "engine"
    /\ out' = calculate_ema(data.Close, window_arg)
    /\ pc' = "ema"
    /\ UNCHANGED <<webhook, i, data, analysis, buy_signals_found, log, posts,
                   post_result, payload, exit_code, window_arg, backtest>>

RunMacd ==
    /\ pc = "engine"
    /\ window_arg = MACD_SIGNAL_LEN
    /\ out' = calculate_macd(data.Close, MACD_FAST_LEN, MACD_SLOW_LEN, window_arg)
    /\ pc' = "macd"
    /\ UNCHANGED <<webhook, i, data, analysis, buy_signals_found, log, posts,
                   post_result, payload, exit_code, window_arg, backtest>>

SpecEngine == InitEngine /\ [][RunRsi \/ RunEma \/ RunMacd]_vars

----------------------------------------------------------------------------
(* send_discord_consolidated_alert applied to one list of signals           *)

MaxSignals == 45

\* The k-th signal of a list: a buy result, its price telling it from the others
SignalAt(k) ==
    analyze_stock(SummaryFrame(EMA_200_LEN,
                               Summary(Num(110 + k), Num(100), Num(100), Num(100),
                                       Num(20), Num(200), Num(1), Num(0), Num(-1), Num(0))),
                  AllTickers[((k - 1) % Len(AllTickers)) + 1])

SignalList(n) == [k \in 1..n |-> SignalAt(k)]

InitAlert ==
    /\ pc = "call"
    /\ webhook \in WebhookValues
    /\ i = 0
    /\ data = NoneFrame
    /\ analysis = None
    /\ buy_signals_found \in {SignalList(n) : n \in 0..MaxSignals}
    /\ log = <<>>
    /\ posts = 0
    /\ post_result = "none"
    /\ payload = <<>>
    /\ exit_code = -1
    /\ out = <<>>
    /\ window_arg = 0
    /\ backtest = NoBacktest

CallAlert ==
    /\ pc = "call"
    /\ \E outcome \in PostOutcomes :
         /\ send_discord_consolidated_alert(webhook, buy_signals_found, outcome)
         /\ pc' = IF AlertReturns(webhook, buy_signals_found, outcome)
                  THEN "returned" ELSE "raised"
    /\ UNCHANGED <<webhook, i, data, analysis, buy_signals_found, log, exit_code, out, window_arg, backtest>>

SpecAlert == InitAlert /\ [][CallAlert]_vars


----------------------------------------------------------------------------
(* SPYOptionsAnalyzer.backtest_strategy (spy_options_day_trading_analysis.py) *)
(* run over two frames in step: backtest_data and a twin that agrees with it *)
(* in every column but Returns, with the same random draws.                  *)

\* optimal_days = [0, 2]: Monday, Wednesday
optimal_days == {0, 2}

DayNames == <<"Monday", "Tuesday", "Wednesday", "Thursday", "Friday">>

\* One row of spy_data after analyze_sma_signals: Short_Call_Signal is
\* Open > SMA5 and Short_Put_Signal is Open < SMA5
SpyRow(day, open, sma5, returns, volatility) ==
    [DayOfWeek |-> day,
     DayName |-> DayNames[day + 1],
     Close |-> open,
     Returns |-> returns,
     Volatility |-> volatility,
     Short_Call_Signal |-> FGt(open, sma5),
     Short_Put_Signal |-> FLt(open, sma5)]

\* The rows that reach `simulate trade outcome`: the others hit `continue`
\* or fail the day test
TakesTrade(row) ==
    /\ row.DayOfWeek \in optimal_days
    /\ row.Short_Call_Signal \/ row.Short_Put_Signal

strategy(row) ==
    IF row.Short_Call_Signal THEN "Short_Call_Spread" ELSE "Short_Put_Spread"

\* success = row['Returns'] < 0 for the call spread, > 0 for the put spread
success(row) ==
    IF row.Short_Call_Signal THEN FLt(row.Returns, Num(0))
    ELSE FGt(row.Returns, Num(0))

\* 0.75 if 'Call' in strategy else 0.75
base_winrate(strat) ==
    IF strat = "Short_Call_Spread" THEN Rat(75, 100) ELSE Rat(75, 100)

\* Python's min(a, b): b when b < a, otherwise a
PyMin(a, b) == IF FLt(b, a) THEN b ELSE a

\* Mutant: the adjustment without its cap
vol_adjustment_uncapped(row) == FMul(row.Volatility, Rat(1, 10))

\* vol_adjustment = min(0.1, row['Volatility'] * 0.1)
vol_adjustment(row) == PyMin(Rat(1, 10), FMul(row.Volatility, Rat(1, 10)))

adjusted_winrate(row) == FSub(base_winrate(strategy(row)), vol_adjustment(row))

\* Mutant: the day's market move decides the trade
OutcomeOfSuccess(draw, winrate, succeeded) ==
    IF succeeded THEN "Win" ELSE "Loss"

\* if np.random.random() < adjusted_winrate: Win, else Loss; the value of
\* `success` is computed before and not read
Outcome(draw, winrate, succeeded) ==
    IF FLt(draw, winrate) THEN "Win" ELSE "Loss"

pnl_pct(outcome) == IF outcome = "Win" THEN Rat(15, 100) ELSE Rat(-25, 100)

TradeOf(date, row, outcome) ==
    [Date |-> date,
     Day |-> row.DayName,
     Strategy |-> strategy(row),
     SPY_Price |-> row.Close,
     Outcome |-> outcome,
     PnL_Pct |-> pnl_pct(outcome),
     Volatility |-> row.Volatility]

\* One pass of the loop body over `row`, the date-th row: trades after it
TradesAfter(trades, date, row, draw) ==
    IF TakesTrade(row)
    THEN Append(trades, TradeOf(date, row,
                                Outcome(draw, adjusted_winrate(row), success(row))))
    ELSE trades

\* The thresholds the draws were compared with, one per trade
WinratesAfter(winrates, row) ==
    IF TakesTrade(row) THEN Append(winrates, adjusted_winrate(row)) ELSE winrates

BacktestAfter(bt, row, twin_row, draw) ==
    [row |-> bt.row + 1,
     backtest_data |-> Append(bt.backtest_data, row),
     twin_data |-> Append(bt.twin_data, twin_row),
     trades |-> TradesAfter(bt.trades, bt.row + 1, row, draw),
     twin_trades |-> TradesAfter(bt.twin_trades, bt.row + 1, twin_row, draw),
     winrates |-> WinratesAfter(bt.winrates, row)]

\* Number of rows of backtest_data
MaxRows == 2

\* Monday, Tuesday, Wednesday
RowDays == {0, 1, 2}

\* Open above, at and below an SMA5 of 400
RowOpens == {Num(390), Num(400), Num(410)}

RowReturns == {Rat(-1, 100), Rat(1, 100)}

\* Annualised volatility: none, and enough to reach the cap
RowVolatilities == {Num(0), Num(2)}

\* np.random.random(): values of [0, 1) on either side of the thresholds
RandomDraws == {Rat(6, 10), Rat(7, 10), Rat(9, 10)}

InitBacktest ==
    /\ pc = "backtest"
    /\ webhook = UNSET
    /\ i = 0
    /\ data = NoneFrame
    /\ analysis = None
    /\ buy_signals_found = <<>>
    /\ log = <<>>
    /\ posts = 0
    /\ post_result = "none"
    /\ payload = <<>>
    /\ exit_code = -1
    /\ out = <<>>
    /\ window_arg = 0
    /\ backtest = NoBacktest

\* for date, row in backtest_data.iterrows(): one row, in both frames
BacktestRow ==
    /\ pc = "backtest"
    /\ backtest.row < MaxRows
    /\ \E day \in RowDays, open \in RowOpens, returns \in RowReturns,
          volatility \in RowVolatilities, draw \in RandomDraws :
         backtest' = BacktestAfter(backtest,
                                   SpyRow(day, open, Num(400), returns, volatility),
                                   SpyRow(day, open, Num(400), FNeg(returns), volatility),
                                   draw)
    /\ UNCHANGED <<pc, webhook, i, data, analysis, buy_signals_found, log, posts,
                   post_result, payload, exit_code, out, window_arg>>

\* The rows are exhausted: trades_df is built and returned
BacktestReturn ==
    /\ pc = "backtest"
    /\ pc' = "backtested"
    /\ out' = backtest.trades
    /\ UNCHANGED <<webhook, i, data, analysis, buy_signals_found, log, posts,
                   post_result, payload, exit_code, window_arg, backtest>>

SpecBacktest == InitBacktest /\ [][BacktestRow \/ BacktestReturn]_vars

----------------------------------------------------------------------------
(* Properties                                                                *)

AllSixFlags(a) ==
    /\ a.price_over_ema35
    /\ a.price_over_ema50
    /\ a.price_over_ema200
    /\ a.rsi_in_buy_range
    /\ a.kc_in_buy_range
    /\ a.macd_bullish_crossover

\* C1: every result analyze_stock returns has overall_buy true exactly when
\* all six condition flags of that result are true.
C1_OverallBuyIffAllSixFlags ==
    (pc = "analyzed" /\ analysis # None)
        => (analysis.overall_buy <=> AllSixFlags(analysis))

C1_Witness_BuyResult ==
    pc = "analyzed" /\ analysis # None /\ analysis.overall_buy

WindowLengths ==
    {EMA_35_LEN, EMA_50_LEN, EMA_200_LEN, RSI_LEN, KC_LEN, KC_ATR_LEN,
     MACD_SLOW_LEN + MACD_SIGNAL_LEN}

\* C2: a frame with fewer bars than the longest warm-up window (some window
\* is longer than the frame) gets no result from analyze_stock.
C2_ShortHistoryGivesNone ==
    (pc = "analyzed" /\ \E w \in WindowLengths : data.len < w) => analysis = None

C2_Witness_199Bars ==
    /\ pc = "analyzed"
    /\ data.kind = "bars"
    /\ data.len = EMA_200_LEN - 1
    /\ analysis = None

LatestValues(s) ==
    {s.close, s.ema35, s.ema50, s.ema200, s.rsi, s.kc_lower, s.macd_line,
     s.signal_line, s.macd_hist}

\* C3: when one of the nine latest values of the frame (close, the three
\* EMAs, RSI, lower Keltner band, MACD line, signal line, histogram) is NaN
\* or infinite, analyze_stock returns None.
C3_NonFiniteLatestValueGivesNone ==
    (pc = "analyzed" /\ \E x \in LatestValues(Indicators(data)) : ~IsFin(x))
        => analysis = None

\* C4: an instrument whose analysis is None is neither appended to
\* buy_signals_found nor reported as hold; hold is reported only for a result
\* whose overall_buy is false.
C4_NoResultIsNeitherBuyNorHold ==
    \A k \in 1..Len(log) :
        /\ log[k].analysis = None =>
             /\ log[k].branch \notin {"buy", "hold"}
             /\ \A j \in 1..Len(buy_signals_found) :
                    buy_signals_found[j].ticker # log[k].ticker
        /\ log[k].branch = "hold" =>
             (log[k].analysis # None /\ ~log[k].analysis.overall_buy)

C4_Witness_AnalysisWithoutResult ==
    /\ pc = "done"
    /\ \E k \in 1..Len(log) :
         log[k].analyzed /\ log[k].analysis = None /\ log[k].branch = "incomplete"

LogTickers == [k \in 1..Len(log) |-> log[k].ticker]

\* C5: whatever fails for an instrument (the fetch raises, the data is empty,
\* the analysis has no result), the loop goes on: the symbols processed so
\* far are always the first i of TICKERS, each once and in order, after the
\* loop they are all of TICKERS, and a run that entered the loop ends.
C5_EveryTickerFetchedOnceInOrder ==
    /\ [](pc \in {"loop", "send", "done"} =>
            (Len(log) = i /\ LogTickers = SubSeq(TICKERS, 1, i)))
    /\ [](pc \in {"send", "done"} => LogTickers = TICKERS)
    /\ ((pc = "loop") ~> (pc = "done"))

C5_Witness_AllFailuresInOneRun ==
    /\ pc = "done"
    /\ LogTickers = TICKERS
    /\ \E k \in 1..Len(log) : log[k].fetch = "error fetching"
    /\ \E k \in 1..Len(log) : log[k].fetch = "no data found"
    /\ \E k \in 1..Len(log) : log[k].analyzed /\ log[k].analysis = None

\* C6: at every position where the average loss over the RSI window is zero,
\* calculate_rsi yields the finite value 100.
C6_ZeroLossRsiIsFinite ==
    pc = "rsi" =>
        \A t \in RSI_LEN..Len(data.Close) :
            AvgLoss(data.Close, RSI_LEN, t) = Num(0) => out[t] = Num(100)

CrossedUp(s) ==
    FGt(s.macd_line, s.signal_line) /\ FLe(s.macd_prev, s.signal_prev)

\* C7: macd_bullish_crossover is true exactly when the MACD line is strictly
\* above the signal line at the latest bar and was at or below it one bar
\* earlier.
C7_CrossoverNeedsPreviousBarAtOrBelow ==
    (pc = "analyzed" /\ analysis # None)
        => (analysis.macd_bullish_crossover <=> CrossedUp(Indicators(data)))

C7_Witness_CrossoverOnBars ==
    /\ pc = "analyzed"
    /\ data.kind = "bars"
    /\ analysis # None
    /\ analysis.macd_bullish_crossover

\* C8: with DISCORD_WEBHOOK_URL unset or empty nothing is fetched, analysed
\* or posted, and the script ends with exit status 1.
C8_NoWebhookAbortsBeforeEvaluation ==
    (webhook = UNSET \/ webhook = "") =>
        /\ pc \in {"start", "exited"}
        /\ pc = "exited" => exit_code = 1
        /\ i = 0
        /\ log = <<>>
        /\ data = NoneFrame
        /\ analysis = None
        /\ posts = 0

C8_Witness_EmptyUrlExits ==
    webhook = "" /\ pc = "exited" /\ exit_code = 1

BuyEntries == SelectSeq(log, LAMBDA e : e.branch = "buy")

\* C9: after a failed POST (it raised or came back with an HTTP error) the
\* script has ended normally, the POST was issued once, and
\* buy_signals_found still holds the results of the loop.
C9_FailedPostIsSwallowed ==
    post_result \in {"http_error", "raised"} =>
        /\ pc = "done"
        /\ exit_code = 0
        /\ posts = 1
        /\ buy_signals_found = [k \in 1..Len(BuyEntries) |-> BuyEntries[k].analysis]

C9_Witness_HttpErrorThenDone ==
    post_result = "http_error" /\ pc = "done" /\ Len(buy_signals_found) > 0

RECURSIVE Flatten(_)
Flatten(embeds) ==
    IF embeds = <<>> THEN <<>>
    ELSE Head(embeds).description \o Flatten(Tail(embeds))

\* C10: for a non-empty list of signals and a configured webhook one payload
\* is posted; the lines of its embeds, read in order, are the lines of the
\* signals in list order; every embed holds between 1 and
\* MAX_FIELDS_PER_EMBED lines and every embed but the last holds exactly
\* MAX_FIELDS_PER_EMBED.
C10_EmbedsPartitionTheSignals ==
    (pc = "returned" /\ webhook \notin {UNSET, ""} /\ buy_signals_found # <<>>) =>
        /\ posts = 1
        /\ Flatten(payload) =
               [k \in 1..Len(buy_signals_found) |-> Details(buy_signals_found[k])]
        /\ \A e \in 1..Len(payload) :
             /\ Len(payload[e].description) \in 1..MAX_FIELDS_PER_EMBED
             /\ e < Len(payload) =>
                  Len(payload[e].description) = MAX_FIELDS_PER_EMBED

C10_Witness_SeveralEmbedsLastPartial ==
    /\ pc = "returned"
    /\ posts = 1
    /\ Len(payload) >= 2
    /\ Len(payload[Len(payload)].description) < MAX_FIELDS_PER_EMBED


\* C11: on the series whose close is 100 for 199 bars and 50 on bar 200, the
\* evaluation at bar 200 yields a result with rsi_in_buy_range,
\* kc_in_buy_range and macd_bullish_crossover true and overall_buy true.
C11_DropOnBar200GivesBuy ==
    (pc = "analyzed" /\ data \in DropFrames) =>
        /\ analysis # None
        /\ analysis.rsi_in_buy_range
        /\ analysis.kc_in_buy_range
        /\ analysis.macd_bullish_crossover
        /\ analysis.overall_buy


StrictlyRising(close) ==
    \A t \in 2..Len(close) : FGt(close[t], close[t - 1])

\* C12: every result analyze_stock returns for a strictly rising close series
\* has an RSI that is not below RSI_BUYING_THRESHOLD, so rsi_in_buy_range is
\* false and overall_buy is false.
C12_RisingSeriesNeverBuys ==
    (/\ pc = "analyzed"
     /\ data.kind = "closes"
     /\ StrictlyRising(data.Close)
     /\ analysis # None) =>
        /\ FLe(Num(RSI_BUYING_THRESHOLD), analysis.rsi)
        /\ ~analysis.rsi_in_buy_range
        /\ ~analysis.overall_buy

C12_Witness_OnlyRsiHoldsBack ==
    /\ pc = "analyzed"
    /\ data.kind = "closes"
    /\ data.len = RisingBars
    /\ StrictlyRising(data.Close)
    /\ analysis # None
    /\ analysis.rsi = Num(100)
    /\ analysis.price_over_ema35
    /\ analysis.price_over_ema50
    /\ analysis.price_over_ema200
    /\ analysis.kc_in_buy_range
    /\ analysis.macd_bullish_crossover
    /\ ~analysis.overall_buy


RECURSIVE EmaRecursion(_, _, _)
EmaRecursion(series, alpha, t) ==
    IF t = 1 THEN series[1]
    ELSE FAdd(FMul(alpha, series[t]),
              FMul(FSub(Num(1), alpha), EmaRecursion(series, alpha, t - 1)))

IsRecursionOf(result, series, w) ==
    /\ Len(result) = Len(series)
    /\ \A t \in 1..Len(series) : result[t] = EmaRecursion(series, Rat(2, w + 1), t)

AllFinite(series) == \A t \in 1..Len(series) : IsFin(series[t])

\* C13 as stated: for every series, calculate_ema(series, window) is the
\* recursion out[1] = series[1], out[t] = a*series[t] + (1-a)*out[t-1] with
\* a = 2/(window+1), of the length of the input, equal to the input for
\* window = 1; the MACD signal line is that recursion over the MACD line.
C13_EmaIsRecursionOnEverySeries ==
    /\ pc = "ema" =>
         /\ IsRecursionOf(out, data.Close, window_arg)
         /\ window_arg = 1 => \A t \in 1..Len(data.Close) : out[t] = data.Close[t]
    /\ pc = "macd" => IsRecursionOf(out.signal_line, out.macd_line, window_arg)

\* C13 amended: the same, for every series all of whose samples are finite.
C13_EmaIsRecursionOnFiniteSeries ==
    /\ (pc = "ema" /\ AllFinite(data.Close)) =>
         /\ IsRecursionOf(out, data.Close, window_arg)
         /\ window_arg = 1 => \A t \in 1..Len(data.Close) : out[t] = data.Close[t]
    /\ (pc = "macd" /\ AllFinite(data.Close)) =>
         IsRecursionOf(out.signal_line, out.macd_line, window_arg)

C13_Witness_SeededFromFirstSample ==
    /\ pc = "ema"
    /\ window_arg = 2
    /\ Len(data.Close) = MaxShort
    /\ AllFinite(data.Close)
    /\ data.Close[1] # data.Close[2]
    /\ out[1] = data.Close[1]
    /\ out[2] # data.Close[2]


Thresholds == backtest.winrates

PnlIsTargetOrStop ==
    \A k \in 1..Len(backtest.trades) :
        \/ backtest.trades[k].Outcome = "Win" /\ backtest.trades[k].PnL_Pct = Rat(15, 100)
        \/ backtest.trades[k].Outcome = "Loss" /\ backtest.trades[k].PnL_Pct = Rat(-25, 100)

\* C14 as stated: the threshold the random draw is compared with is the same
\* for every trade of a run, whatever the day's bar, and PnL_Pct is +0.15 on
\* a Win and -0.25 on a Loss.
C14_OneConstantWinRate ==
    /\ \A j, k \in 1..Len(Thresholds) : Thresholds[j] = Thresholds[k]
    /\ PnlIsTargetOrStop

\* C14 amended: the threshold of a trade lies between 0.65 and 0.75 and
\* depends on the Volatility of the day's bar only (trades of equal
\* Volatility have equal thresholds, zero Volatility gives 0.75); PnL_Pct is
\* +0.15 on a Win and -0.25 on a Loss.
C14_WinRateDependsOnVolatilityOnly ==
    /\ Len(Thresholds) = Len(backtest.trades)
    /\ \A k \in 1..Len(Thresholds) :
         /\ FLe(Rat(65, 100), Thresholds[k])
         /\ FLe(Thresholds[k], Rat(75, 100))
         /\ backtest.trades[k].Volatility = Num(0) => Thresholds[k] = Rat(75, 100)
    /\ \A j, k \in 1..Len(Thresholds) :
         backtest.trades[j].Volatility = backtest.trades[k].Volatility
             => Thresholds[j] = Thresholds[k]
    /\ PnlIsTargetOrStop

C14_Witness_TwoTradesTwoThresholds ==
    /\ pc = "backtested"
    /\ Len(backtest.trades) = 2
    /\ Thresholds[1] # Thresholds[2]
    /\ backtest.trades[1].Outcome = "Win"
    /\ backtest.trades[2].Outcome = "Loss"

\* C16: a backtest and its twin, which differ in Returns only and see the
\* same random draws, record the same number of trades with the same
\* Strategy, Outcome and PnL_Pct; every trade is of a Monday or Wednesday row
\* with exactly one of Short_Call_Signal and Short_Put_Signal set.
C16_OutcomeIgnoresReturns ==
    /\ Len(backtest.trades) = Len(backtest.twin_trades)
    /\ \A k \in 1..Len(backtest.trades) :
         /\ backtest.trades[k].Outcome = backtest.twin_trades[k].Outcome
         /\ backtest.trades[k].PnL_Pct = backtest.twin_trades[k].PnL_Pct
         /\ backtest.trades[k].Strategy = backtest.twin_trades[k].Strategy
         /\ backtest.backtest_data[backtest.trades[k].Date].DayOfWeek \in {0, 2}
         /\ backtest.backtest_data[backtest.trades[k].Date].Short_Call_Signal
              # backtest.backtest_data[backtest.trades[k].Date].Short_Put_Signal

C16_Witness_WinOnALosingDay ==
    /\ pc = "backtested"
    /\ Len(backtest.trades) = 1
    /\ Len(backtest.backtest_data) = 2
    /\ backtest.trades[1].Outcome = "Win"
    /\ ~success(backtest.backtest_data[backtest.trades[1].Date])
    /\ success(backtest.twin_data[backtest.trades[1].Date])


BuyResults == SelectSeq(log, LAMBDA e : e.analysis # None /\ e.analysis.overall_buy)

TickerIndex(ticker) == CHOOSE k \in 1..Len(TICKERS) : TICKERS[k] = ticker

\* C15: the POST is issued at most once and only after the last ticker was
\* processed; a finished run has posted once if some instrument had
\* overall_buy true and not at all otherwise; the list posted is the results
\* with overall_buy true, each instrument once, in TICKERS order.
C15_OnePostAfterTheLoop ==
    /\ posts <= 1
    /\ posts = 1 => (pc \in {"done", "crashed"} /\ Len(log) = Len(TICKERS))
    /\ pc = "done" => (posts = 1 <=> BuyResults # <<>>)
    /\ pc = "done" =>
         /\ buy_signals_found = [k \in 1..Len(BuyResults) |-> BuyResults[k].analysis]
         /\ \A j, k \in 1..Len(buy_signals_found) :
              j < k => TickerIndex(buy_signals_found[j].ticker)
                         < TickerIndex(buy_signals_found[k].ticker)
    /\ (pc = "done" /\ posts = 1) =>
         Flatten(payload) =
             [k \in 1..Len(BuyResults) |-> Details(BuyResults[k].analysis)]

C15_Witness_TwoBuysOnePost ==
    /\ pc = "done"
    /\ posts = 1
    /\ Len(buy_signals_found) = 2
    /\ Len(log) = Len(TICKERS)
    /\ \E k \in 1..Len(log) : log[k].branch = "hold"


====
